---------------------------- MODULE Spec2Model ----------------------------
(***************************************************************************)
(* A model of mugen's event time-sequence core (src/mugen/events.py):      *)
(* Event, EventList (add_events, offset, speed_multiply, _split, _merge,   *)
(* group_by_type, group_by_slices) and EventGroupList (selected_groups,    *)
(* unselected_groups, speed_multiply, flatten).                            *)
(*                                                                         *)
(* Numbers.  Locations and speeds are exact rationals <<n, d>> in lowest   *)
(* terms with d > 0, so that the division of an interval by the number of  *)
(* pieces in _split is exact.                                              *)
(*                                                                         *)
(* Objects.  An Event is a record [location, duration, kind]; kind is the  *)
(* event's concrete class (type(self).__name__), which is NOT part of the  *)
(* instance __dict__.  An EventList is a record [events, end].  The groups *)
(* of an EventGroupList are objects shared by reference between the main   *)
(* sequence and _selected_groups: the model keeps them in the heap `heap`  *)
(* (object id -> EventList) and the two Python lists hold object ids.      *)
(***************************************************************************)
EXTENDS Integers, Sequences, FiniteSets, TLC

VARIABLES
    events,     \* the EventList under test: its sequence of Events
    end,        \* its `end` attribute (None or a number)
    pre,        \* history: `events` before the last call
    op,         \* history: the last call and its arguments
    err,        \* history: the exception the last call raised, "none" if none
    pc,         \* position in the scenario of the specification at hand
    heap,       \* EventList objects created by the grouping: id -> [events, end]
    main,       \* EventGroupList: the list itself, a sequence of object ids
    selected,   \* EventGroupList._selected_groups, a sequence of object ids
    ret         \* the last value returned by flatten() or by ==, with its operands

vars == <<events, end, pre, op, err, pc, heap, main, selected, ret>>

\* Optional values (Python None or a value v): <<>> or <<v>>
None == <<>>
Some(v) == <<v>>

-----------------------------------------------------------------------------
(* Bounds of the model *)

MaxLen == 3     \* longest EventList drawn as an input / kept by the guards
MaxLoc == 2     \* input locations are the integers 0..MaxLoc
MaxP == 3       \* numerators and denominators of the speeds drawn: 0..MaxP
MaxDen == 2     \* largest denominator of a location kept by the guards of Spec

Kinds == {"Beat", "Onset"}
Durations == {0, 1}

-----------------------------------------------------------------------------
(* Exact rationals (Python int/float arithmetic and fractions.Fraction) *)

RECURSIVE GCD(_, _)
GCD(a, b) == IF b = 0 THEN a ELSE GCD(b, a % b)

Abs(a) == IF a < 0 THEN -a ELSE a

Rat(n, d) ==
    LET g == GCD(Abs(n), Abs(d))
        s == IF d < 0 THEN -1 ELSE 1
    IN  <<(s * n) \div g, (s * d) \div g>>

Whole(n) == <<n, 1>>
RAdd(x, y) == Rat(x[1] * y[2] + y[1] * x[2], x[2] * y[2])
RSub(x, y) == Rat(x[1] * y[2] - y[1] * x[2], x[2] * y[2])
RDivInt(x, p) == Rat(x[1], x[2] * p)
RMulInt(x, j) == Rat(x[1] * j, x[2])
RLess(x, y) == x[1] * y[2] < y[1] * x[2]
RLeq(x, y) == x[1] * y[2] <= y[1] * x[2]

numerator(x) == x[1]
denominator(x) == x[2]

-----------------------------------------------------------------------------
(* Sequence helpers *)

RECURSIVE Concat(_)
Concat(ss) == IF ss = <<>> THEN <<>> ELSE Head(ss) \o Concat(Tail(ss))

SeqsUpTo(S, n) == UNION {[1..k -> S] : k \in 0..n}

-----------------------------------------------------------------------------
(* Event *)

Event(loc, dur, k) == [location |-> loc, duration |-> dur, kind |-> k]

\* the instance attributes of an Event: what self.__dict__ holds
EventDict(e) == [location |-> e.location, duration |-> e.duration]

EventLt(a, b) == RLess(a.location, b.location)

\* the Events drawn as inputs
InputEvents == {Event(Whole(l), d, k) : l \in 0..MaxLoc, d \in Durations, k \in Kinds}

-----------------------------------------------------------------------------
(* EventList *)

locations(evs) == [i \in 1..Len(evs) |-> evs[i].location]
types(evs) == [i \in 1..Len(evs) |-> evs[i].kind]

\* bisect.insort(self, event): insort_right, after every element not greater
insort(evs, e) ==
    LET lo == Cardinality({i \in 1..Len(evs) : ~EventLt(e, evs[i])})
        \* on a sorted list, the elements not greater than e are a prefix;
        \* bisect_right finds its length by binary search
    IN  SubSeq(evs, 1, lo) \o <<e>> \o SubSeq(evs, lo + 1, Len(evs))

\* add_events with list.append in place of bisect.insort
add_events_append(evs, new) == evs \o new

RECURSIVE add_events(_, _)
add_events(evs, new) ==
    IF new = <<>> THEN evs ELSE add_events(insort(evs, Head(new)), Tail(new))

offset_events(evs, delta) ==
    [i \in 1..Len(evs) |-> [evs[i] EXCEPT !.location = RAdd(@, delta)]]

\* groupby over the events sorted by class: one group per class
TypeRunsRegrouped(evs) ==
    LET of(k) == SelectSeq(evs, LAMBDA e : e.kind = k)
    IN  SelectSeq(<<of("Beat"), of("Onset")>>, LAMBDA g : g # <<>>)

\* itertools.groupby(self, key=attrgetter("__class__")): maximal runs of
\* consecutive events of one class, in order
RECURSIVE TypeRuns(_)
TypeRuns(evs) ==
    IF evs = <<>> THEN <<>>
    ELSE LET rest == TypeRuns(Tail(evs))
         IN  IF rest # <<>> /\ Head(rest)[1].kind = Head(evs).kind
             THEN <<(<<Head(evs)>> \o Head(rest))>> \o Tail(rest)
             ELSE <<(<<Head(evs)>>)>> \o rest

\* the inner loop of _split: pieces_per_split - 1 deep copies of `event`,
\* each `interval_piece` after the one before
RECURSIVE Splinters(_, _, _, _)
Splinters(event, loc, interval_piece, n) ==
    IF n = 0 THEN <<>>
    ELSE LET location == RAdd(loc, interval_piece)
         IN  <<[event EXCEPT !.location = location]>>
             \o Splinters(event, location, interval_piece, n - 1)

\* _split with range(pieces_per_split) in place of range(pieces_per_split - 1)
SplitGroupOneTooMany(group, pieces_per_split) ==
    IF Len(group) = 1 THEN group
    ELSE Concat([index \in 1..Len(group) |->
            IF index = Len(group) THEN <<group[index]>>
            ELSE LET event == group[index]
                     next_event == group[index + 1]
                     interval == RSub(next_event.location, event.location)
                     interval_piece == RDivInt(interval, pieces_per_split)
                 IN  <<event>> \o Splinters(event, event.location, interval_piece,
                                            pieces_per_split)])

SplitGroup(group, pieces_per_split) ==
    IF Len(group) = 1 THEN group
    ELSE Concat([index \in 1..Len(group) |->
            IF index = Len(group) THEN <<group[index]>>
            ELSE LET event == group[index]
                     next_event == group[index + 1]
                     interval == RSub(next_event.location, event.location)
                     interval_piece == RDivInt(interval, pieces_per_split)
                 IN  <<event>> \o Splinters(event, event.location, interval_piece,
                                            pieces_per_split - 1)])

_split(evs, pieces_per_split) ==
    LET type_groups == TypeRuns(evs)
    IN  Concat([g \in 1..Len(type_groups) |->
                    SplitGroup(type_groups[g], pieces_per_split)])

RECURSIVE KeepEvery(_, _, _, _)
KeepEvery(group, index, off, pieces_per_merge) ==
    \* index is Python's 0-based enumerate index of Head(group)
    IF group = <<>> THEN <<>>
    ELSE (IF (index - off) % pieces_per_merge = 0 THEN <<Head(group)>> ELSE <<>>)
         \o KeepEvery(Tail(group), index + 1, off, pieces_per_merge)

\* _merge with enumerate(group, 1) in place of enumerate(group)
MergeGroupOneBased(group, pieces_per_merge, off) ==
    IF Len(group) = 1 THEN group
    ELSE KeepEvery(group, 1, off, pieces_per_merge)

MergeGroup(group, pieces_per_merge, off) ==
    IF Len(group) = 1 THEN group
    ELSE KeepEvery(group, 0, off, pieces_per_merge)

_merge(evs, pieces_per_merge, offst) ==
    LET off == IF offst = None THEN 0 ELSE offst[1]
        type_groups == TypeRuns(evs)
    IN  Concat([g \in 1..Len(type_groups) |->
                    MergeGroup(type_groups[g], pieces_per_merge, off)])

\* the decorator convert_float_to_fraction("speed"): the speed as an exact
\* fraction in lowest terms
convert_float_to_fraction(speed) == Rat(speed[1], speed[2])

\* EventList.speed_multiply, after the decorator: the new content of the list
speed_multiply(evs, speed, offst) ==
    IF speed = Whole(0) THEN <<>>
    ELSE IF RLess(Whole(1), speed) THEN _split(evs, numerator(speed))
    ELSE IF RLess(speed, Whole(1)) THEN _merge(evs, denominator(speed), offst)
    ELSE evs

\* the exception EventList.speed_multiply raises for `speed`: it has no raise
\* statement and none of its branches can fail
speed_multiply_error(speed) == "none"

-----------------------------------------------------------------------------
(* Event and EventList equality *)

\* Event.__eq__: self.__dict__ == other.__dict__
EventEq(a, b) == EventDict(a) = EventDict(b)

\* list.__eq__ over Events: same length and pairwise ==
ListEq(xs, ys) ==
    /\ Len(xs) = Len(ys)
    /\ \A i \in 1..Len(xs) : EventEq(xs[i], ys[i])

\* EventList.__eq__: super().__eq__(other) and self.end == other.end
EventListEq(x, y) == ListEq(x.events, y.events) /\ x.end = y.end

EventList(evs, e) == [events |-> evs, end |-> e]

-----------------------------------------------------------------------------
(* EventGroupList: `h` is the heap of group objects, `ids` a Python list of *)
(* references to them                                                      *)

\* general.fill_slices(slices, length): the given ranges, in order, with the
\* gaps before, between and after them filled, covering [0, length)
RECURSIVE fill_slices_from(_, _, _)
fill_slices_from(cur, slices, length) ==
    IF slices = <<>>
    THEN IF cur < length THEN <<(<<cur, length>>)>> ELSE <<>>
    ELSE LET sl == Head(slices)
         IN  (IF cur < sl[1] THEN <<(<<cur, sl[1]>>)>> ELSE <<>>)
             \o <<sl>> \o fill_slices_from(sl[2], Tail(slices), length)

fill_slices(slices, length) == fill_slices_from(0, slices, length)

\* EventList.__getitem__(slice(start, stop)): Python's 0-based half-open slice
GetSlice(evs, sl) == SubSeq(evs, sl[1] + 1, sl[2])

\* the groups group_by_type builds, in order
group_by_type_groups(evs, e) ==
    [g \in 1..Len(TypeRuns(evs)) |-> EventList(TypeRuns(evs)[g], e)]

\* the positions of the groups group_by_type puts in selected_groups
group_by_type_selected(groups, select_types) ==
    IF select_types = {} THEN [i \in 1..Len(groups) |-> i]
    ELSE SelectSeq([i \in 1..Len(groups) |-> i],
                   LAMBDA i : groups[i].events[1].kind \in select_types)

\* the groups group_by_slices builds, in order
group_by_slices_groups(evs, e, slices) ==
    LET all_slices == fill_slices(slices, Len(evs))
    IN  [i \in 1..Len(all_slices) |-> EventList(GetSlice(evs, all_slices[i]), e)]

\* the positions of the groups group_by_slices puts in selected_groups
group_by_slices_selected(evs, slices) ==
    LET all_slices == fill_slices(slices, Len(evs))
    IN  SelectSeq([i \in 1..Len(all_slices) |-> i],
                  LAMBDA i : \E k \in 1..Len(slices) : all_slices[i] = slices[k])

\* selected_groups with `self` in place of self._selected_groups
selected_groups_all(m, sel) == m

\* EventGroupList.selected_groups: a new list of the same group objects
selected_groups(m, sel) == sel

\* `group in groups` for a Python list: identity, or ==
GroupIn(h, id, ids) ==
    \E k \in 1..Len(ids) : ids[k] = id \/ EventListEq(h[id], h[ids[k]])

\* EventGroupList.unselected_groups
unselected_groups(h, m, sel) ==
    SelectSeq(m, LAMBDA id : ~GroupIn(h, id, selected_groups(m, sel)))

\* EventGroupList.end
group_list_end(h, m) == IF m # <<>> THEN h[m[Len(m)]].end ELSE None

\* lists.flatten: the items of the sublists, in order
lists_flatten(ls) == Concat(ls)

\* EventGroupList.flatten
flatten(h, m) ==
    EventList(lists_flatten([i \in 1..Len(m) |-> h[m[i]].events]),
              group_list_end(h, m))

Max(a, b) == IF a > b THEN a ELSE b

\* the i-th item zip_longest yields for the list xs: None past its end
ZipAt(xs, i) == IF i <= Len(xs) THEN xs[i] ELSE None

\* the exception EventGroupList.speed_multiply raises: None has no
\* speed_multiply, so a round past the last group fails
group_speed_multiply_error(ids, speeds, offsets) ==
    IF Max(Len(speeds), Len(offsets)) > Len(ids) THEN "AttributeError"
    ELSE "none"

\* the heap after rounds i.. of the loop of EventGroupList.speed_multiply
RECURSIVE group_speed_multiply_from(_, _, _, _, _)
group_speed_multiply_from(h, ids, speeds, offsets, i) ==
    IF i > Len(ids) THEN h
    ELSE LET group == ids[i]
             speed == IF ZipAt(speeds, i) # None THEN ZipAt(speeds, i)
                      ELSE <<1, 1>>
             offst == ZipAt(offsets, i)
             retimed == speed_multiply(h[group].events,
                                       convert_float_to_fraction(speed), offst)
         IN  group_speed_multiply_from([h EXCEPT ![group].events = retimed],
                                       ids, speeds, offsets, i + 1)

\* EventGroupList.speed_multiply on the list `ids`
group_speed_multiply(h, ids, speeds, offsets) ==
    group_speed_multiply_from(h, ids, speeds, offsets, 1)

-----------------------------------------------------------------------------
(* Inputs *)

RawSpeeds == {<<n, d>> : n \in 0..MaxP, d \in 1..MaxP}
Offsets == {None} \cup {Some(o) : o \in 0..(MaxP - 1)}
Deltas == {Whole(1), Whole(-1)}

IsSorted(evs) ==
    \A i \in 1..(Len(evs) - 1) : RLeq(evs[i].location, evs[i + 1].location)

\* the lists drawn as inputs: as the callers build them, ordered by location
InputLists == {evs \in SeqsUpTo(InputEvents, MaxLen) : IsSorted(evs)}

\* the arguments of add_events drawn: events of the default duration, one,
\* or two given in any order
AddedEvents == {e \in InputEvents : e.duration = 0}
AddedLists == SeqsUpTo(AddedEvents, 2) \ {<<>>}

NoOp == [name |-> "none"]

InRange(evs) ==
    \A i \in 1..Len(evs) :
        /\ RLeq(Whole(0), evs[i].location)
        /\ RLeq(evs[i].location, Whole(MaxLoc))
        /\ denominator(evs[i].location) <= MaxDen

-----------------------------------------------------------------------------
(* Spec: one EventList, empty at first, under any interleaving of          *)
(* add_events, offset and speed_multiply.                                  *)

Init ==
    /\ events = <<>>
    /\ end = None
    /\ pre = <<>>
    /\ op = NoOp
    /\ err = "none"
    /\ pc = "list"
    /\ heap = <<>>
    /\ main = <<>>
    /\ selected = <<>>
    /\ ret = NoOp

AddEvents(new) ==
    /\ Len(events) + Len(new) <= MaxLen
    /\ events' = add_events(events, new)
    /\ UNCHANGED <<end, pre, op, err, pc, heap, main, selected, ret>>

Offset(delta) ==
    /\ events # <<>>
    /\ InRange(offset_events(events, delta))
    /\ events' = offset_events(events, delta)
    /\ UNCHANGED <<end, pre, op, err, pc, heap, main, selected, ret>>

SpeedMultiply(speed, offst) ==
    LET new == speed_multiply(events, convert_float_to_fraction(speed), offst)
    IN  /\ Len(new) <= MaxLen
        /\ InRange(new)
        /\ events' = new
        /\ UNCHANGED <<end, pre, op, err, pc, heap, main, selected, ret>>

Next ==
    \/ \E new \in AddedLists : AddEvents(new)
    \/ \E delta \in Deltas : Offset(delta)
    \/ \E speed \in RawSpeeds, offst \in Offsets : SpeedMultiply(speed, offst)

Spec == Init /\ [][Next]_vars

-----------------------------------------------------------------------------
(* SpecRetime: one call of EventList.speed_multiply on any input list.     *)

InitRetime ==
    /\ events \in InputLists
    /\ end = None
    /\ pre = <<>>
    /\ op = NoOp
    /\ err = "none"
    /\ pc = "new"
    /\ heap = <<>>
    /\ main = <<>>
    /\ selected = <<>>
    /\ ret = NoOp

\* a call self.speed_multiply(speed, offset), with what it leaves behind
Call(speed, offst) ==
    LET fraction == convert_float_to_fraction(speed)
        error == speed_multiply_error(fraction)
    IN  /\ pre' = events
        /\ op' = [name |-> "speed_multiply", speed |-> fraction, offset |-> offst]
        /\ err' = error
        /\ events' = IF error = "none" THEN speed_multiply(events, fraction, offst)
                     ELSE events

Retime(speed, offst) ==
    /\ pc = "new"
    /\ pc' = "retimed"
    /\ Call(speed, offst)
    /\ UNCHANGED <<end, heap, main, selected, ret>>

NextRetime == \E speed \in RawSpeeds, offst \in Offsets : Retime(speed, offst)

SpecRetime == InitRetime /\ [][NextRetime]_vars

-----------------------------------------------------------------------------
(* SpecRoundTrip: speed_multiply(p) and then speed_multiply(1/p, offset)   *)
(* on the same list; `pre` keeps the list as it was before the first call. *)

RoundTripSplit(p) ==
    /\ pc = "new"
    /\ pc' = "split"
    /\ Call(<<p, 1>>, None)
    /\ UNCHANGED <<end, heap, main, selected, ret>>

RoundTripMerge(offst) ==
    LET fraction == convert_float_to_fraction(<<1, numerator(op.speed)>>)
    IN  /\ pc = "split"
        /\ pc' = "merged"
        /\ events' = speed_multiply(events, fraction, offst)
        /\ op' = [name |-> "speed_multiply", speed |-> fraction, offset |-> offst]
        /\ err' = speed_multiply_error(fraction)
        /\ UNCHANGED <<pre, end, heap, main, selected, ret>>

NextRoundTrip ==
    \/ \E p \in 2..MaxP : RoundTripSplit(p)
    \/ \E offst \in Offsets : RoundTripMerge(offst)

SpecRoundTrip == InitRetime /\ [][NextRoundTrip]_vars

-----------------------------------------------------------------------------
(* SpecGroups: an EventList is grouped by type or by slices and the        *)
(* resulting EventGroupList is flattened.                                  *)
(* SpecGroupRetime: the EventGroupList is retimed, through itself or       *)
(* through selected_groups, and then flattened.                            *)

MaxArgs == 2    \* longest `speeds` and `offsets` lists drawn

GroupSpeeds == {<<2, 1>>, <<1, 2>>}
GroupOffsets == {Some(1)}

\* the lists grouped: events of the default duration, ordered by location
GroupInputLists == {evs \in InputLists : \A i \in 1..Len(evs) : evs[i].duration = 0}

\* the `slices` arguments drawn: up to two non-empty ranges of [0, n), in
\* order and not overlapping
Ranges(n) == {sl \in (0..n) \X (0..n) : sl[1] < sl[2]}
SliceLists(n) ==
    {<<>>} \cup {<<sl>> : sl \in Ranges(n)}
    \cup {ss \in Ranges(n) \X Ranges(n) : ss[1][2] <= ss[2][1]}

InitGroups ==
    /\ events \in GroupInputLists
    /\ end \in {None, Some(MaxLoc + 1)}
    /\ pre = <<>>
    /\ op = NoOp
    /\ err = "none"
    /\ pc = "list"
    /\ heap = <<>>
    /\ main = <<>>
    /\ selected = <<>>
    /\ ret = NoOp

GroupByType(select_types) ==
    LET groups == group_by_type_groups(events, end)
    IN  /\ pc = "list"
        /\ pc' = "grouped"
        /\ heap' = groups
        /\ main' = [i \in 1..Len(groups) |-> i]
        /\ selected' = group_by_type_selected(groups, select_types)
        /\ op' = [name |-> "group_by_type", select_types |-> select_types]
        /\ UNCHANGED <<events, end, pre, err, ret>>

GroupBySlices(slices) ==
    LET groups == group_by_slices_groups(events, end, slices)
    IN  /\ pc = "list"
        /\ pc' = "grouped"
        /\ heap' = groups
        /\ main' = [i \in 1..Len(groups) |-> i]
        /\ selected' = group_by_slices_selected(events, slices)
        /\ op' = [name |-> "group_by_slices", slices |-> slices]
        /\ UNCHANGED <<events, end, pre, err, ret>>

\* the group lists kept by the guards
GroupsInRange(h) ==
    \A id \in 1..Len(h) : Len(h[id].events) <= MaxLen /\ InRange(h[id].events)

\* self.speed_multiply(speeds, offsets) (view = "main") or
\* self.selected_groups.speed_multiply(speeds, offsets) (view = "selected")
GroupsSpeedMultiply(view, speeds, offsets) ==
    LET ids == IF view = "main" THEN main ELSE selected_groups(main, selected)
        new == group_speed_multiply(heap, ids, speeds, offsets)
    IN  /\ pc \in {"grouped", "retimed"}
        /\ pc' = IF pc = "grouped" THEN "retimed" ELSE "retimed again"
        /\ GroupsInRange(new)
        /\ heap' = new
        /\ pre' = heap
        /\ op' = [name |-> "speed_multiply", view |-> view, ids |-> ids,
                  speeds |-> speeds, offsets |-> offsets]
        /\ err' = group_speed_multiply_error(ids, speeds, offsets)
        /\ ret' = NoOp
        /\ UNCHANGED <<events, end, main, selected>>

Flatten ==
    /\ pc \in {"grouped", "retimed", "retimed again"}
    /\ ret = NoOp
    /\ ret' = [name |-> "flatten", value |-> flatten(heap, main)]
    /\ UNCHANGED <<events, end, pre, op, err, pc, heap, main, selected>>

NextGroups ==
    \/ \E select_types \in SUBSET Kinds : GroupByType(select_types)
    \/ \E slices \in SliceLists(Len(events)) : GroupBySlices(slices)
    \/ Flatten

SpecGroups == InitGroups /\ [][NextGroups]_vars

\* the lists retimed group by group: events at distinct locations
InitGroupRetime ==
    /\ InitGroups
    /\ end = Some(MaxLoc + 1)
    /\ \A i \in 1..(Len(events) - 1) :
          RLess(events[i].location, events[i + 1].location)

NextGroupRetime ==
    \/ \E select_types \in SUBSET Kinds : GroupByType(select_types)
    \/ \E slices \in {ss \in SliceLists(Len(events)) : Len(ss) <= 1} :
            GroupBySlices(slices)
    \/ \E view \in {"main", "selected"},
          speeds \in SeqsUpTo(GroupSpeeds, MaxArgs),
          offsets \in SeqsUpTo(GroupOffsets, MaxArgs) :
            pc = "grouped" /\ GroupsSpeedMultiply(view, speeds, offsets)
    \/ \E speeds \in SeqsUpTo(GroupSpeeds, 1) :
            /\ pc = "retimed" /\ op.view = "selected"
            /\ GroupsSpeedMultiply("selected", speeds, <<>>)
    \/ Flatten

SpecGroupRetime == InitGroupRetime /\ [][NextGroupRetime]_vars

-----------------------------------------------------------------------------
(* SpecEq: two Events, and two EventLists holding them, are compared.      *)

InitEq ==
    /\ events = <<>>
    /\ end \in {None, Some(MaxLoc + 1)}
    /\ pre \in InputEvents \X InputEvents
    /\ op = NoOp
    /\ err = "none"
    /\ pc = "operands"
    /\ heap = <<>>
    /\ main = <<>>
    /\ selected = <<>>
    /\ ret = NoOp

\* pre[1] == pre[2]
EventEquals ==
    /\ pc = "operands"
    /\ pc' = "compared"
    /\ ret' = [name |-> "Event.__eq__", value |-> EventEq(pre[1], pre[2])]
    /\ UNCHANGED <<events, end, pre, op, err, heap, main, selected>>

\* EventList([first, pre[1]], end=end) == EventList([first, pre[2]], end=end)
EventListEquals(first) ==
    /\ pc = "operands"
    /\ pc' = "compared"
    /\ ret' = [name |-> "EventList.__eq__", first |-> first,
               value |-> EventListEq(EventList(<<first, pre[1]>>, end),
                                     EventList(<<first, pre[2]>>, end))]
    /\ UNCHANGED <<events, end, pre, op, err, heap, main, selected>>

NextEq ==
    \/ EventEquals
    \/ \E first \in InputEvents : EventListEquals(first)

SpecEq == InitEq /\ [][NextEq]_vars

-----------------------------------------------------------------------------
(* Claims about EventList.speed_multiply                                   *)

IsIntegerSpeedup(speed) == denominator(speed) = 1 /\ numerator(speed) > 1
IsUnitSlowdown(speed) == numerator(speed) = 1 /\ denominator(speed) > 1
IsValidSpeed(speed) ==
    speed = Whole(0) \/ IsIntegerSpeedup(speed) \/ IsUnitSlowdown(speed)

Called == op.name = "speed_multiply"

RunKinds(evs) == [r \in 1..Len(TypeRuns(evs)) |-> TypeRuns(evs)[r][1].kind]

\* what the split by p is said to make of one type-run
ExpectedSplitRun(run, p) ==
    IF Len(run) = 1 THEN run
    ELSE [m \in 1..((Len(run) - 1) * p + 1) |->
            LET i == ((m - 1) \div p) + 1
                j == (m - 1) % p
            IN  IF j = 0 THEN run[i]
                ELSE Event(RAdd(run[i].location,
                                RDivInt(RMulInt(RSub(run[i + 1].location,
                                                     run[i].location), j), p)),
                           run[i].duration, run[i].kind)]

\* C1: speed_multiply(p) for an integer p > 1 keeps a type-run of one event
\* unchanged and turns a type-run of n >= 2 events into (n - 1) * p + 1
\* events: each original event in order, followed (but for the run's last
\* event) by p - 1 events of its kind and duration at
\* e_i.location + j * (e_{i+1}.location - e_i.location) / p, j = 1..p-1;
\* nothing is inserted after a run's last event or between two runs.
C1_SplitInsertsBetweenRunNeighbours ==
    (pc = "retimed" /\ Called /\ IsIntegerSpeedup(op.speed)) =>
        LET runs == TypeRuns(pre)
            p == numerator(op.speed)
        IN  /\ events = Concat([r \in 1..Len(runs) |-> ExpectedSplitRun(runs[r], p)])
            /\ err = "none"

\* a case of C1: a run of two events at different locations followed by
\* another run, split in 2
C1_Witness ==
    /\ pc = "retimed" /\ Called /\ op.speed = Whole(2)
    /\ types(pre) = <<"Beat", "Beat", "Onset">>
    /\ locations(pre) = <<Whole(0), Whole(1), Whole(2)>>
    /\ locations(events) = <<Whole(0), <<1, 2>>, Whole(1), Whole(2)>>

\* C2: a slowdown 1/k with an offset in [0, k-1] keeps every event that was
\* alone in its type-run, and the list has the same sequence of type-runs
\* afterwards (same kinds in the same order).
C2_MergeKeepsRunBoundaries ==
    (/\ pc = "retimed" /\ Called /\ IsUnitSlowdown(op.speed)
     /\ op.offset # None /\ op.offset[1] \in 0..(denominator(op.speed) - 1)) =>
        /\ \A r \in 1..Len(TypeRuns(pre)) :
              Len(TypeRuns(pre)[r]) = 1 =>
                  \E i \in 1..Len(events) : events[i] = TypeRuns(pre)[r][1]
        /\ RunKinds(events) = RunKinds(pre)

\* C3: speed_multiply rejects every speed that is not 0, not an integer
\* p > 1 and not a unit fraction 1/k (for example 3/2 or 2/3): the call fails
\* with a precondition violation and leaves the list unchanged.  (Speed 1,
\* the no-op EventGroupList.speed_multiply passes for a missing speed, is
\* left out of the speeds said to be rejected.)
C3_OtherRatiosRejected ==
    (pc = "retimed" /\ Called /\ ~IsValidSpeed(op.speed) /\ op.speed # Whole(1)) =>
        /\ err = "PreconditionViolation"
        /\ events = pre

\* C8: on a list that is one homogeneous type-run (n >= 1 events),
\* speed_multiply(p) for an integer p > 1 followed by
\* speed_multiply(1/p, offset=0) leaves exactly the original events, in the
\* original order; no synthesized event remains.
C8_SplitThenMergeRoundTrip ==
    (/\ pc = "merged" /\ op.offset = Some(0)
     /\ Len(TypeRuns(pre)) = 1) =>
        events = pre

\* a case of C8: a run of three events, split (to more events) and merged back
C8_Witness ==
    /\ pc = "merged" /\ op.offset = Some(0) /\ op.speed = <<1, 3>>
    /\ Len(TypeRuns(pre)) = 1 /\ Len(pre) = 3
    /\ pre[1].location # pre[2].location
    /\ events = pre

-----------------------------------------------------------------------------
(* Claims about EventGroupList                                             *)

Retimed == op.name = "speed_multiply" /\ pc \in {"retimed", "retimed again"}
Grouped == op.name \in {"group_by_type", "group_by_slices"}

\* the speed and the offset the positional pairing gives the i-th group of
\* the list retimed: speeds[i] and offsets[i] where there are such entries,
\* speed 1 and no offset otherwise
PairedSpeed(i) == IF i <= Len(op.speeds) THEN op.speeds[i] ELSE <<1, 1>>
PairedOffset(i) == IF i <= Len(op.offsets) THEN op.offsets[i] ELSE None
PairedResult(i) ==
    speed_multiply(pre[op.ids[i]].events,
                   convert_float_to_fraction(PairedSpeed(i)), PairedOffset(i))

Ids(ids) == {ids[i] : i \in 1..Len(ids)}

\* C4: EventGroupList.speed_multiply(speeds, offsets) retimes group i with
\* speeds[i] (and offsets[i]) when there is such an entry and leaves it
\* unchanged otherwise; entries beyond the number of groups are ignored and
\* the call completes without error.
C4_LongestPairingCompletes ==
    Retimed =>
        /\ \A i \in 1..Len(op.ids) : heap[op.ids[i]].events = PairedResult(i)
        /\ err = "none"

\* C5: the groups of selected_groups are the group objects of the main
\* sequence: after speed_multiply calls made through selected_groups each
\* selected group of the main sequence holds its retimed events, each
\* unselected group is unchanged, and flatten() of the parent returns the
\* groups' current events concatenated in group order.
C5_SelectedViewAliasesMain ==
    (Retimed /\ op.view = "selected") =>
        /\ Ids(selected) \subseteq Ids(main)
        /\ op.ids = selected
        /\ \A k \in 1..Len(selected) : heap[selected[k]].events = PairedResult(k)
        /\ \A id \in Ids(main) \ Ids(selected) : heap[id] = pre[id]
        /\ ret.name = "flatten" =>
              ret.value.events =
                  Concat([i \in 1..Len(main) |->
                            IF \E k \in 1..Len(selected) : selected[k] = main[i]
                            THEN PairedResult(CHOOSE k \in 1..Len(selected) :
                                                  selected[k] = main[i])
                            ELSE pre[main[i]].events])

\* a case of C5: a selected group was retimed through the view (it holds other
\* events than before), an unselected group exists, and the parent was
\* flattened afterwards
C5_Witness ==
    /\ Retimed /\ op.view = "selected" /\ ret.name = "flatten"
    /\ Ids(main) \ Ids(selected) # {}
    /\ \E k \in 1..Len(selected) :
          Len(heap[selected[k]].events) > Len(pre[selected[k]].events)

\* a second call through the view has acted on a group the first one retimed
C5_WitnessSequence ==
    /\ pc = "retimed again" /\ op.view = "selected"
    /\ \E k \in 1..Len(selected) : heap[selected[k]] # pre[selected[k]]

\* the groups are the maximal contiguous same-kind runs of the list, in order
IsRunPartition(h, m, evs) ==
    /\ Concat([i \in 1..Len(m) |-> h[m[i]].events]) = evs
    /\ \A i \in 1..Len(m) :
          /\ h[m[i]].events # <<>>
          /\ \A a, b \in 1..Len(h[m[i]].events) :
                h[m[i]].events[a].kind = h[m[i]].events[b].kind
    /\ \A i \in 1..(Len(m) - 1) :
          h[m[i]].events[Len(h[m[i]].events)].kind # h[m[i + 1]].events[1].kind

FlattenedUnmodified == op.name = "group_by_type" /\ ret.name = "flatten"

\* C6 as stated: for every EventList L (any length including 0, end set or
\* not) group_by_type returns the maximal contiguous same-kind runs of L in
\* order, and flatten() of the unmodified result equals L: the same events
\* in the same order and the same end.
C6_FlattenOfGroupByTypeIsIdentity ==
    FlattenedUnmodified =>
        /\ IsRunPartition(heap, main, events)
        /\ ret.value = EventList(events, end)

\* C6 amended: group_by_type returns the maximal contiguous same-kind runs
\* of L in order, and flatten() of the unmodified result holds the events of
\* L in the same order; its end is the end of L when L is not empty, and
\* None when L is empty (whatever the end of L).
C6_FlattenOfGroupByTypeAmended ==
    FlattenedUnmodified =>
        /\ IsRunPartition(heap, main, events)
        /\ ret.value.events = events
        /\ ret.value.end = IF events = <<>> THEN None ELSE end

\* a case of C6: kinds [A, A, B] with an end, grouped in two groups of sizes
\* 2 and 1 and flattened back
C6_Witness ==
    /\ FlattenedUnmodified
    /\ types(events) = <<"Beat", "Beat", "Onset">>
    /\ end # None
    /\ Len(main) = 2 /\ Len(heap[main[1]].events) = 2
    /\ ret.value = EventList(events, end)

\* whether the grouping call chose the group object `id` for selection (the
\* grouping numbers the group objects by their position in the main
\* sequence): by type, every run when select_types is empty and the runs of
\* a kind in select_types otherwise; by slices, the ranges passed explicitly
Chosen(id) ==
    IF op.name = "group_by_type"
    THEN op.select_types = {} \/ heap[id].events[1].kind \in op.select_types
    ELSE \E k \in 1..Len(op.slices) :
            fill_slices(op.slices, Len(events))[id] = op.slices[k]

\* C7: selected_groups and unselected_groups partition the main sequence of
\* an EventGroupList produced by group_by_type or group_by_slices: every
\* group is in exactly one of them, the two lengths add up to the number of
\* groups, and unselected_groups is exactly the groups not chosen for
\* selection, also when two groups hold equal events.
C7_SelectedUnselectedPartition ==
    Grouped =>
        LET sel == selected_groups(main, selected)
            unsel == unselected_groups(heap, main, selected)
        IN  /\ Len(sel) + Len(unsel) = Len(main)
            /\ Ids(sel) \cap Ids(unsel) = {}
            /\ Ids(sel) \cup Ids(unsel) = Ids(main)
            /\ unsel = SelectSeq(main, LAMBDA id : ~Chosen(id))

-----------------------------------------------------------------------------
(* Claims about equality                                                   *)

\* C10: two Events are equal if and only if they have the same location, the
\* same duration and the same concrete kind; two events of different kinds
\* with equal location and duration are not equal, and two EventLists that
\* hold them at the same position are not equal.
C10_EqualityIncludesKind ==
    /\ ret.name = "Event.__eq__" =>
          (ret.value <=> (/\ pre[1].location = pre[2].location
                          /\ pre[1].duration = pre[2].duration
                          /\ pre[1].kind = pre[2].kind))
    /\ (ret.name = "EventList.__eq__" /\ pre[1].kind # pre[2].kind) =>
          ret.value = FALSE

=============================================================================
